---- MODULE Spec2Model ----
(***************************************************************************)
(* Model of the neural-network trainer front end (karam96gh/frontend-ai). *)
(*                                                                         *)
(* Three specifications share this module:                                 *)
(*   Spec       the training wizard: App, DataUpload, TrainingConfig,      *)
(*              TrainingResults and GradCAMViewer                          *)
(*   SpecTest   the testing panel: ModelTesting                            *)
(*   SpecRetry  ErrorHandler.createRetryHandler                            *)
(*                                                                         *)
(* React state is a variable per useState cell.  A component's local state *)
(* exists while the component is mounted and is re-initialised on every    *)
(* mount.  An await splits a handler into the part before the request and  *)
(* the part that runs on the response; requests and pending timers live in *)
(* the set net.  Closures keep the props and state of the render that      *)
(* created them: what a continuation reads from its closure is stored in   *)
(* the request record.  State updates of an unmounted instance are no-ops. *)
(***************************************************************************)
EXTENDS Integers, FiniteSets, Sequences, TLC

\* ---------------------------------------------------------------- bounds
MaxFiles == 2        \* distinct files the user drops
MaxMounts == 2       \* TrainingResults instances created in one behaviour
MaxGcMounts == 1     \* GradCAMViewer instances created in one behaviour
MaxProgress == 1     \* largest epoch, batch and history length in a response
MaxInFlight == 2     \* requests and timers pending at once before the user
                     \* or a mounting panel adds another
MaxModels == 1       \* models the backend lists
MaxSessions == 1     \* session ids the backend hands out
MaxTests == 2        \* prediction requests made in one behaviour
MaxTestInFlight == 1 \* requests and timers of the testing panel pending
MaxRetryCount == 4   \* cap of the retryCount counter
MaxRetriesArg == 3   \* largest maxRetries a retry handler is made with

\* ------------------------------------------------------- values and nulls
Files == 1 .. MaxFiles

\* the backend answers an upload of file f with a preview for f; even files
\* are image archives, odd files are CSV
FileType(f) == IF f % 2 = 0 THEN "images" ELSE "csv"

NoPreview == [of |-> 0, sid |-> 0, type |-> "none"]
Preview(f, s) == [of |-> f, sid |-> s, type |-> FileType(f)]
NoData == [file |-> 0, preview |-> NoPreview, type |-> "none"]

\* A configuration as handleStartTraining reads it.  learningRate is kept
\* in thousandths (0.01 is 10); phase2_epochs is -1 while the field is
\* undefined (it is first set by handleModelTypeChange).
MkConfig(m, e, b, lr, p2) ==
  [modelType |-> m, epochs |-> e, batchSize |-> b, learningRate |-> lr,
   phase2_epochs |-> p2]
\* App.js:14 useState({}) and resetApp's setTrainingConfig({})
EmptyConfig == MkConfig("none", -1, -1, -1, -1)
\* TrainingConfig.js:632: parseInt(e.target.value) of an emptied input is
\* not a number.  It is kept as -1, the value of an undefined field: both
\* make every comparison of handleStartTraining false.
NaN == -1
\* JavaScript's a < b and a <= b on numbers
JsLt(a, b) == a # NaN /\ b # NaN /\ a < b
JsLe(a, b) == a # NaN /\ b # NaN /\ a <= b
\* the model types and epoch counts the user enters in the form
ModelTypeChoices == {"efficientnetv2"}
EpochInputs == {0, NaN}
\* the tabs the user switches between ("metrics" and "iterations" behave as
\* "charts" does)
Tabs == {"charts", "gradcam", "export"}
\* status values of a /api/training-progress response; "idle" stands for
\* every value the if/else-if chain of pollTrainingProgress does not name
Statuses == {"training", "completed", "error", "stopped", "idle"}

VARIABLES
  \* App.js:11-16
  currentView, currentStep, uploadedData, trainingConfig, trainingResults,
  isTraining,
  \* DataUpload (part_001:6-8) and its uploads in flight
  uploadedFile, isProcessing, previewData, uploads,
  \* TrainingConfig.js:5 config
  config,
  \* TrainingResults.js:7-23
  trInst, trMounts, trainingData, currentEpoch, currentBatch,
  isStoppingTraining, activeTab, showGradCAMTab, gradcamLoading, isExporting,
  \* GradCAMViewer.js:5-7
  gcInst, gcMounts, gradcamData, gcIsLoading,
  \* requests in flight and pending timers of TrainingResults/GradCAMViewer
  net,
  \* how the last failed request was reported to the user: "toast",
  \* "console" (logged only), "silent" (dropped); "none" before any failure
  reported,
  \* ModelTesting.js:7-28
  availableModels, selectedModel, isLoadingModels, isLoadingModel, loadedModel,
  trainingDataInfo, sessionId, csvInput, uploadedImage, isTesting, testResults,
  csvValidation, lastError, retryCount,
  \* the pending debounce timer of ModelTesting.js:172-180, the requests and
  \* timers of the testing panel in flight, and the prediction requests made
  csvTimer, mtNet, mtReqs,
  \* the sessions of the backend for which a close-session request has been
  \* sent since the backend handed them out
  closeSent,
  \* createRetryHandler (api.js:396-421): the arguments, the position of the
  \* returned function, its locals, and the waits and calls it has made
  rhPc, rhAttempt, rhMaxRetries, rhDelay, rhLastError, rhWaits, rhCalls,
  rhResult,
  \* the last call of validateFile (api.js:629) and of
  \* ErrorHandler.handleApiError / createDisplayError (api.js:212, 274):
  \* the arguments and the value returned
  vfArgs, vfResult, ehArgs, ehResult,
  \* App.js:20-21 connectionStatus and lastError ("null", or the type of the
  \* error recorded), and the health checks in flight, each with the
  \* connectionStatus and lastError its closure holds
  connectionStatus, appLastError, healthNet

appVars == <<currentView, currentStep, uploadedData, trainingConfig,
             trainingResults, isTraining>>
duVars == <<uploadedFile, isProcessing, previewData, uploads>>
trVars == <<trInst, trMounts, trainingData, currentEpoch, currentBatch,
            isStoppingTraining, activeTab, showGradCAMTab, gradcamLoading,
            isExporting>>
gcVars == <<gcInst, gcMounts, gradcamData, gcIsLoading>>
mtVars == <<availableModels, selectedModel, isLoadingModels, isLoadingModel,
            loadedModel, trainingDataInfo, sessionId, csvInput, uploadedImage,
            isTesting, testResults, csvValidation, lastError, retryCount,
            csvTimer, mtNet, mtReqs, closeSent>>
rhVars == <<rhPc, rhAttempt, rhMaxRetries, rhDelay, rhLastError, rhWaits,
            rhCalls, rhResult>>
hcVars == <<connectionStatus, appLastError, healthNet>>
utVars == <<vfArgs, vfResult, ehArgs, ehResult, hcVars>>
vars == <<appVars, duVars, config, trVars, gcVars, net, reported, mtVars,
          rhVars, utVars>>

trainSide == <<appVars, duVars, config, trVars, gcVars, net, reported>>
\* the state of the panels a specification leaves idle
others == <<mtVars, rhVars, utVars>>
\* the wizard behind the 'train' view, idle while the testing panel is used
wizard == <<currentStep, uploadedData, trainingConfig, trainingResults,
            isTraining, duVars, config, trVars, gcVars, net>>

\* ------------------------------------------------------------- rendering
\* App.js:392-417: which panel of the wizard is mounted
DuMounted == currentView = "train" /\ currentStep = 1
CfgMounted == currentView = "train" /\ currentStep = 2
TrMounted == currentView = "train" /\ currentStep = 3

\* a request or pending timer of TrainingResults: the instance that issued
\* it and the props its closure holds
Req(k, i, c, s) == [kind |-> k, inst |-> i, cfg |-> c, sid |-> s]
\* the closure of pollTrainingProgress reads trainingConfig.epochs only
PollCfg(c) == MkConfig("none", c.epochs, -1, -1, -1)
Room(n) == Cardinality(n) <= MaxInFlight

\* TrainingConfig.js:5-16 and the mount effect (:46-74): CNN for image data,
\* MLP for tabular data
MountConfig(type) ==
  MkConfig(IF type = "images" THEN "cnn" ELSE "mlp", 100, 32, 10, -1)

\* TrainingResults.js:25-30, the start effect: the requests it issues
StartEffect(inst, training, results, cfg, sid) ==
  IF training /\ results = 0 THEN {Req("start", inst, cfg, 0)} ELSE {}

\* TrainingResults.js:50-55, the Grad-CAM effect: whether it calls
\* computeGradCAM
GradCamEffect(training, results, shown, cfg) ==
  ~training /\ results # 0 /\ ~shown /\ cfg.modelType = "efficientnetv2"

\* TrainingResults.js:142-157, computeGradCAM up to its await: the request
\* it issues (none without a session id)
ComputeGradCAMReqs(inst, cfg, sid) ==
  IF sid # 0 THEN {Req("gradcam", inst, EmptyConfig, sid)} ELSE {}

\* TrainingResults.js:735-741: GradCAMViewer is rendered inside the Grad-CAM
\* tab once the computation has started
GcShown ==
  /\ trInst' # 0
  /\ activeTab' = "gradcam"
  /\ trainingConfig'.modelType = "efficientnetv2"
  /\ showGradCAMTab'
  /\ ~gradcamLoading'

\* GradCAMViewer.js:5-17: mount (fetchGradCAMData when there is a session
\* id), stay mounted, or unmount, after the panel's state has changed;
\* nb is the set of requests the action leaves in flight
Finish(nb) ==
  LET sid == uploadedData'.preview.sid IN
  IF GcShown /\ gcInst # 0 /\ trInst' = trInst
    THEN /\ UNCHANGED gcVars
         /\ net' = nb
  ELSE IF GcShown
    THEN /\ gcMounts < MaxGcMounts
         /\ Room(nb \cup {Req("gcStatus", gcMounts + 1, EmptyConfig, sid)})
         /\ gcInst' = gcMounts + 1
         /\ gcMounts' = gcMounts + 1
         /\ gradcamData' = FALSE
         /\ gcIsLoading' = (sid # 0)
         /\ net' = nb \cup (IF sid # 0
                            THEN {Req("gcStatus", gcMounts + 1, EmptyConfig, sid)}
                            ELSE {})
    ELSE /\ gcInst' = 0
         /\ gcMounts' = gcMounts
         /\ gradcamData' = FALSE
         /\ gcIsLoading' = FALSE
         /\ net' = nb

\* useState initial values of an unmounted or newly mounted DataUpload
DuFresh ==
  /\ uploadedFile' = 0
  /\ isProcessing' = FALSE
  /\ previewData' = NoPreview
  /\ uploads' = {}

\* TrainingResults.js:7-30, 50-55: a new instance with its initial state and
\* its mount effects
MountTR(nb) ==
  LET inst == trMounts + 1
      sid == uploadedData'.preview.sid
      gc == GradCamEffect(isTraining', trainingResults', FALSE, trainingConfig')
      effects ==
        StartEffect(inst, isTraining', trainingResults', trainingConfig', sid)
        \cup (IF gc THEN ComputeGradCAMReqs(inst, trainingConfig', sid) ELSE {})
  IN /\ trMounts < MaxMounts
     /\ trInst' = inst
     /\ trMounts' = inst
     /\ trainingData' = 0
     /\ currentEpoch' = 0
     /\ currentBatch' = 0
     /\ isStoppingTraining' = FALSE
     /\ activeTab' = "charts"
     /\ showGradCAMTab' = FALSE
     /\ gradcamLoading' = (gc /\ sid # 0)
     /\ isExporting' = FALSE
     /\ Room(nb \cup effects)
     /\ Finish(nb \cup effects)

\* no TrainingResults instance is mounted
TrGone(nb) ==
  /\ trInst' = 0
  /\ trMounts' = trMounts
  /\ trainingData' = 0
  /\ currentEpoch' = 0
  /\ currentBatch' = 0
  /\ isStoppingTraining' = FALSE
  /\ activeTab' = "charts"
  /\ showGradCAMTab' = FALSE
  /\ gradcamLoading' = FALSE
  /\ isExporting' = FALSE
  /\ Finish(nb)

\* App.js:392-417: the panels mounted and unmounted by a change of
\* currentView or currentStep
Lifecycle(nb) ==
  IF currentView' = currentView /\ currentStep' = currentStep
    THEN /\ UNCHANGED <<duVars, config, trVars>>
         /\ Finish(nb)
    ELSE /\ DuFresh
         /\ config' = IF currentView' = "train" /\ currentStep' = 2
                        THEN MountConfig(uploadedData'.type)
                        ELSE EmptyConfig
         /\ IF currentView' = "train" /\ currentStep' = 3
              THEN MountTR(nb)
              ELSE TrGone(nb)

\* -------------------------------------------------------------------- App
\* App.js:285-291, 341-347: the navigation buttons.  The testing panel that
\* the 'test' view mounts is specified separately (SpecTest).
SetCurrentView(v) ==
  /\ UNCHANGED others
  /\ v # currentView
  /\ currentView' = v
  /\ UNCHANGED <<currentStep, uploadedData, trainingConfig, trainingResults,
                 isTraining, reported>>
  /\ Lifecycle(net)

\* App.js:69-80
HandleDataUpload(data) ==
  /\ uploadedData' = data
  /\ currentStep' = 2
  /\ UNCHANGED <<currentView, trainingConfig, trainingResults, isTraining,
                 reported>>
  /\ Lifecycle(net)

\* a handleTrainingStart that leaves the wizard at the configuration step
HandleTrainingStartKeepsStep(cfg) ==
  IF cfg = EmptyConfig \/ uploadedData = NoData
    THEN UNCHANGED trainSide
    ELSE /\ trainingConfig' = cfg
         /\ isTraining' = TRUE
         /\ UNCHANGED <<currentView, currentStep, uploadedData,
                        trainingResults, reported>>
         /\ Lifecycle(net)

\* App.js:82-100
HandleTrainingStart(cfg) ==
  IF cfg = EmptyConfig \/ uploadedData = NoData
    THEN UNCHANGED trainSide
    ELSE /\ trainingConfig' = cfg
         /\ currentStep' = 3
         /\ isTraining' = TRUE
         /\ UNCHANGED <<currentView, uploadedData, trainingResults, reported>>
         /\ Lifecycle(net)

\* a handleTrainingComplete that also drops the configuration of the run
HandleTrainingCompleteDropsConfig(results) ==
  /\ trainingResults' = results
  /\ isTraining' = FALSE
  /\ trainingConfig' = EmptyConfig
  /\ UNCHANGED <<currentView, currentStep, uploadedData>>

\* App.js:102-118: the App state after handleTrainingComplete(results)
HandleTrainingComplete(results) ==
  /\ trainingResults' = results
  /\ isTraining' = FALSE
  /\ UNCHANGED <<currentView, currentStep, uploadedData, trainingConfig>>

\* a resetApp that keeps the upload descriptor
ResetAppKeepsUpload(nb) ==
  /\ currentStep' = 1
  /\ trainingConfig' = EmptyConfig
  /\ trainingResults' = 0
  /\ isTraining' = FALSE
  /\ UNCHANGED <<currentView, uploadedData>>
  /\ Lifecycle(nb)

\* App.js:120-134; nb is what stays in flight
ResetApp(nb) ==
  /\ currentStep' = 1
  /\ uploadedData' = NoData
  /\ trainingConfig' = EmptyConfig
  /\ trainingResults' = 0
  /\ isTraining' = FALSE
  /\ UNCHANGED currentView
  /\ Lifecycle(nb)

\* ------------------------------------------------------------- DataUpload
\* part_001:12-30, onDrop up to the upload request; the dropzone is rendered
\* only while no file is selected (part_001:142)
OnDrop(f) ==
  /\ UNCHANGED others
  /\ DuMounted
  /\ uploadedFile = 0
  /\ f \notin uploads
  /\ isProcessing' = TRUE
  /\ uploadedFile' = f
  /\ uploads' = uploads \cup {f}
  /\ UNCHANGED <<appVars, previewData, config, trVars, gcVars, net, reported>>

\* part_001:48-62, 76-78: the upload of f answered with success; s is the
\* session id of the preview (0: none)
UploadOk(f, s) ==
  /\ UNCHANGED others
  /\ f \in uploads
  /\ previewData' = Preview(f, s)
  /\ isProcessing' = FALSE
  /\ uploads' = uploads \ {f}
  /\ UNCHANGED <<appVars, uploadedFile, config, trVars, gcVars, net, reported>>

\* part_001:63-78: the upload of f failed (network, non-OK or bad JSON)
UploadFail(f) ==
  /\ UNCHANGED others
  /\ f \in uploads
  /\ uploadedFile' = 0
  /\ isProcessing' = FALSE
  /\ uploads' = uploads \ {f}
  /\ reported' = "toast"
  /\ UNCHANGED <<appVars, previewData, config, trVars, gcVars, net>>

\* part_001:102-106; both remove buttons are rendered while a file is
\* selected (part_001:182, 212, 427)
RemoveFile ==
  /\ UNCHANGED others
  /\ DuMounted
  /\ uploadedFile # 0
  /\ uploadedFile' = 0
  /\ previewData' = NoPreview
  /\ UNCHANGED <<appVars, isProcessing, uploads, config, trVars, gcVars, net,
                 reported>>

\* part_001:92-100 behind the Continue button (part_001:432-435)
HandleProceed ==
  /\ UNCHANGED others
  /\ DuMounted
  /\ uploadedFile # 0
  /\ ~(previewData = NoPreview \/ isProcessing)
  /\ IF uploadedFile # 0 /\ previewData # NoPreview
       THEN HandleDataUpload([file |-> uploadedFile, preview |-> previewData,
                              type |-> previewData.type])
       ELSE UNCHANGED trainSide

\* --------------------------------------------------------- TrainingConfig
\* TrainingConfig.js:76-121
HandleModelTypeChange(m) ==
  /\ UNCHANGED others
  /\ CfgMounted
  /\ config' = MkConfig(m,
                        IF m = "efficientnetv2" THEN 30 ELSE 100,
                        IF m = "efficientnetv2" THEN 16 ELSE 32,
                        IF m = "perceptron" THEN 10 ELSE 1,
                        25)
  /\ UNCHANGED <<appVars, duVars, trVars, gcVars, net, reported>>

\* TrainingConfig.js:123-125 for the epochs field
HandleConfigChange(e) ==
  /\ UNCHANGED others
  /\ CfgMounted
  /\ config' = [config EXCEPT !.epochs = e]
  /\ UNCHANGED <<appVars, duVars, trVars, gcVars, net, reported>>

\* TrainingConfig.js:193-218: the configuration passes the range validation
ConfigValid(c, data) ==
  /\ ~(JsLt(c.epochs, 1) \/ JsLt(1000, c.epochs))
  /\ ~(JsLt(c.batchSize, 1) \/ JsLt(512, c.batchSize))
  /\ ~(JsLe(c.learningRate, 0) \/ JsLt(1000, c.learningRate))
  /\ c.modelType = "efficientnetv2" =>
       /\ data.type = "images"
       /\ ~(JsLt(c.phase2_epochs, 1) \/ JsLt(100, c.phase2_epochs))

\* TrainingConfig.js:193-221
HandleStartTraining ==
  /\ UNCHANGED others
  /\ CfgMounted
  /\ IF ConfigValid(config, uploadedData)
       THEN HandleTrainingStart(config)
       ELSE UNCHANGED trainSide

\* App.js:403, the Back button of the configuration panel
OnBack ==
  /\ UNCHANGED others
  /\ CfgMounted
  /\ currentStep' = 1
  /\ UNCHANGED <<currentView, uploadedData, trainingConfig, trainingResults,
                 isTraining, reported>>
  /\ Lifecycle(net)

\* -------------------------------------------------------- TrainingResults
\* the part of handleTrainingComplete(results) that the mounted results
\* panel sees: App's state and the Grad-CAM effect (TrainingResults.js:50-55,
\* 142-157) that the new isTraining/results trigger; nb stays in flight
Complete(results, nb) ==
  LET sid == uploadedData.preview.sid
      gc == /\ trInst # 0
            /\ GradCamEffect(FALSE, results, showGradCAMTab, trainingConfig)
  IN /\ HandleTrainingComplete(results)
     /\ gradcamLoading' = IF gc THEN sid # 0 ELSE gradcamLoading
     /\ Finish(nb \cup (IF gc THEN ComputeGradCAMReqs(trInst, trainingConfig, sid)
                              ELSE {}))

\* TrainingResults.js:90-95: the training-start request of r succeeded and
\* pollTrainingProgress issues the first progress request
StartOk(r) ==
  /\ UNCHANGED others
  /\ r \in net /\ r.kind = "start"
  /\ UNCHANGED <<appVars, duVars, config, trVars, reported>>
  /\ Finish((net \ {r}) \cup {Req("poll", r.inst, PollCfg(r.cfg), 0)})

\* TrainingResults.js:90-93, 96-99: the training-start request failed
StartFail(r) ==
  /\ UNCHANGED others
  /\ r \in net /\ r.kind = "start"
  /\ reported' = "toast"
  /\ UNCHANGED <<duVars, config, trInst, trMounts, trainingData, currentEpoch,
                 currentBatch, isStoppingTraining, activeTab, showGradCAMTab,
                 isExporting>>
  /\ Complete(0, net \ {r})

\* the pending timer r fires: pollTrainingProgress issues its request
\* (TrainingResults.js:104, 119, 138)
PollTimerFire(r) ==
  /\ UNCHANGED others
  /\ r \in net /\ r.kind = "pollTimer"
  /\ UNCHANGED <<appVars, duVars, config, trVars, reported>>
  /\ Finish((net \ {r}) \cup {Req("poll", r.inst, PollCfg(r.cfg), 0)})

\* TrainingResults.js:105-135: the progress request r is answered with
\* status st, epoch e, a history of length h and batch b; a state update of
\* an instance that is no longer mounted changes nothing
PollResponse(r, st, e, h, b) ==
  LET live == r.inst = trInst
      rest == net \ {r}
      final == IF e # 0 THEN e ELSE r.cfg.epochs
  IN
  /\ UNCHANGED others
  /\ r \in net /\ r.kind = "poll"
  /\ UNCHANGED <<duVars, config, trInst, trMounts, isStoppingTraining,
                 activeTab, showGradCAMTab, isExporting, reported>>
  /\ CASE st = "training" ->
            /\ currentEpoch' = IF live THEN e ELSE currentEpoch
            /\ trainingData' = IF live THEN h ELSE trainingData
            /\ currentBatch' = IF live THEN b ELSE currentBatch
            /\ UNCHANGED <<appVars, gradcamLoading>>
            /\ Finish(rest \cup {Req("pollTimer", r.inst, r.cfg, 0)})
       [] st = "completed" ->
            /\ currentEpoch' = IF live THEN final ELSE currentEpoch
            /\ trainingData' = IF live THEN h ELSE trainingData
            /\ UNCHANGED currentBatch
            /\ Complete(final, rest)
       [] st \in {"error", "stopped"} ->
            /\ UNCHANGED <<trainingData, currentEpoch, currentBatch>>
            /\ Complete(0, rest)
       [] OTHER ->
            /\ UNCHANGED <<appVars, trainingData, currentEpoch, currentBatch,
                           gradcamLoading>>
            /\ Finish(rest)

\* TrainingResults.js:136-139: the progress request failed (network error or
\* a body that is not JSON): logged, and polled again after 2 s
PollFail(r) ==
  /\ UNCHANGED others
  /\ r \in net /\ r.kind = "poll"
  /\ reported' = "console"
  /\ UNCHANGED <<appVars, duVars, config, trVars>>
  /\ Finish((net \ {r}) \cup {Req("pollTimer", r.inst, r.cfg, 0)})

\* TrainingResults.js:159-169: the compute-gradcam request r is answered OK
GradCamOk(r) ==
  LET live == r.inst = trInst IN
  /\ UNCHANGED others
  /\ r \in net /\ r.kind = "gradcam"
  /\ showGradCAMTab' = IF live THEN TRUE ELSE showGradCAMTab
  /\ activeTab' = IF live THEN "gradcam" ELSE activeTab
  /\ gradcamLoading' = IF live THEN FALSE ELSE gradcamLoading
  /\ UNCHANGED <<appVars, duVars, config, trInst, trMounts, trainingData,
                 currentEpoch, currentBatch, isStoppingTraining, isExporting,
                 reported>>
  /\ Finish(net \ {r})

\* TrainingResults.js:159-169: the compute-gradcam request r fails; a non-OK
\* answer (thrown = FALSE) is dropped silently, a network error is logged
GradCamFail(r, thrown) ==
  LET live == r.inst = trInst IN
  /\ UNCHANGED others
  /\ r \in net /\ r.kind = "gradcam"
  /\ gradcamLoading' = IF live THEN FALSE ELSE gradcamLoading
  /\ reported' = IF thrown THEN "console" ELSE "silent"
  /\ UNCHANGED <<appVars, duVars, config, trInst, trMounts, trainingData,
                 currentEpoch, currentBatch, isStoppingTraining, activeTab,
                 showGradCAMTab, isExporting>>
  /\ Finish(net \ {r})

\* TrainingResults.js:172-180 behind the Stop button (:346-350)
HandleStopTraining ==
  /\ UNCHANGED others
  /\ TrMounted /\ isTraining
  /\ ~isStoppingTraining
  /\ isStoppingTraining' = TRUE
  /\ UNCHANGED <<appVars, duVars, config, trInst, trMounts, trainingData,
                 currentEpoch, currentBatch, activeTab, showGradCAMTab,
                 gradcamLoading, isExporting, reported>>
  /\ Room(net \cup {Req("stop", trInst, EmptyConfig, 0)})
  /\ Finish(net \cup {Req("stop", trInst, EmptyConfig, 0)})

\* TrainingResults.js:182-184, 191-193: the stop request r is answered OK
StopOk(r) ==
  /\ UNCHANGED others
  /\ r \in net /\ r.kind = "stop"
  /\ isStoppingTraining' = IF r.inst = trInst THEN FALSE ELSE isStoppingTraining
  /\ UNCHANGED <<duVars, config, trInst, trMounts, trainingData, currentEpoch,
                 currentBatch, activeTab, showGradCAMTab, isExporting, reported>>
  /\ Complete(0, net \ {r})

\* TrainingResults.js:185-193: the stop request r fails
StopFail(r) ==
  /\ UNCHANGED others
  /\ r \in net /\ r.kind = "stop"
  /\ isStoppingTraining' = IF r.inst = trInst THEN FALSE ELSE isStoppingTraining
  /\ reported' = "toast"
  /\ UNCHANGED <<appVars, duVars, config, trInst, trMounts, trainingData,
                 currentEpoch, currentBatch, activeTab, showGradCAMTab,
                 gradcamLoading, isExporting>>
  /\ Finish(net \ {r})

\* TrainingResults.js:196-200 behind the Reset State button (:365-367); one
\* reset request of an instance is in flight at a time
HandleResetTrainingState ==
  /\ UNCHANGED others
  /\ TrMounted
  /\ Req("reset", trInst, EmptyConfig, 0) \notin net
  /\ UNCHANGED <<appVars, duVars, config, trVars, reported>>
  /\ Room(net \cup {Req("reset", trInst, EmptyConfig, 0)})
  /\ Finish(net \cup {Req("reset", trInst, EmptyConfig, 0)})

\* TrainingResults.js:202-210: the reset request r is answered OK; the
\* instance clears its history and epoch and calls onReset (resetApp), which
\* unmounts the results panel
ResetOk(r) ==
  /\ UNCHANGED others
  /\ r \in net /\ r.kind = "reset"
  /\ UNCHANGED reported
  /\ ResetApp(net \ {r})

\* TrainingResults.js:211-217: the reset request r fails
ResetFail(r) ==
  /\ UNCHANGED others
  /\ r \in net /\ r.kind = "reset"
  /\ reported' = "toast"
  /\ UNCHANGED <<appVars, duVars, config, trVars>>
  /\ Finish(net \ {r})

\* a handleExport that also clears the epoch counter
HandleExportClearsEpoch ==
  /\ UNCHANGED others
  /\ TrMounted
  /\ activeTab = "export" /\ ~isTraining /\ trainingResults # 0
  /\ ~isExporting
  /\ isExporting' = TRUE
  /\ currentEpoch' = 0
  /\ UNCHANGED <<appVars, duVars, config, trInst, trMounts, trainingData,
                 currentBatch, isStoppingTraining, activeTab,
                 showGradCAMTab, gradcamLoading, reported>>
  /\ Room(net \cup {Req("export", trInst, EmptyConfig, 0)})
  /\ Finish(net \cup {Req("export", trInst, EmptyConfig, 0)})

\* TrainingResults.js:220-225 behind the Export button (:898, 956-958)
HandleExport ==
  /\ UNCHANGED others
  /\ TrMounted
  /\ activeTab = "export" /\ ~isTraining /\ trainingResults # 0
  /\ ~isExporting
  /\ isExporting' = TRUE
  /\ UNCHANGED <<appVars, duVars, config, trInst, trMounts, trainingData,
                 currentEpoch, currentBatch, isStoppingTraining, activeTab,
                 showGradCAMTab, gradcamLoading, reported>>
  /\ Room(net \cup {Req("export", trInst, EmptyConfig, 0)})
  /\ Finish(net \cup {Req("export", trInst, EmptyConfig, 0)})

\* TrainingResults.js:227-246: the export request r is answered (ok) or fails
ExportDone(r, ok) ==
  /\ UNCHANGED others
  /\ r \in net /\ r.kind = "export"
  /\ isExporting' = IF r.inst = trInst THEN FALSE ELSE isExporting
  /\ reported' = IF ok THEN reported ELSE "toast"
  /\ UNCHANGED <<appVars, duVars, config, trInst, trMounts, trainingData,
                 currentEpoch, currentBatch, isStoppingTraining, activeTab,
                 showGradCAMTab, gradcamLoading>>
  /\ Finish(net \ {r})

\* TrainingResults.js:511-579: the tab buttons that are rendered
TabShown(t) ==
  /\ trainingData > 0 \/ ~isTraining \/ trainingResults # 0
  /\ IF t = "gradcam"
       THEN trainingConfig.modelType = "efficientnetv2"
       ELSE trainingData > 0

\* TrainingResults.js:517, 528, 543, 558, 569
SetActiveTab(t) ==
  /\ UNCHANGED others
  /\ TrMounted
  /\ TabShown(t)
  /\ t # activeTab
  /\ activeTab' = t
  /\ UNCHANGED <<appVars, duVars, config, trInst, trMounts, trainingData,
                 currentEpoch, currentBatch, isStoppingTraining,
                 showGradCAMTab, gradcamLoading, isExporting, reported>>
  /\ Finish(net)

\* TrainingResults.js:988-990: Train New Model calls onReset (resetApp)
TrainNewModel ==
  /\ UNCHANGED others
  /\ TrMounted
  /\ ~isTraining
  /\ UNCHANGED reported
  /\ ResetApp(net)

\* ---------------------------------------------------------- GradCAMViewer
\* GradCAMViewer.js:19-28 behind the Refresh button (:151), rendered while
\* nothing is loading and no data is shown (:99-110); one status request of
\* an instance is in flight at a time
FetchGradCAMData ==
  /\ UNCHANGED others
  /\ gcInst # 0
  /\ ~gcIsLoading /\ ~gradcamData
  /\ uploadedData.preview.sid # 0
  /\ Req("gcStatus", gcInst, EmptyConfig, uploadedData.preview.sid) \notin net
  /\ gcIsLoading' = TRUE
  /\ net' = net \cup {Req("gcStatus", gcInst, EmptyConfig,
                          uploadedData.preview.sid)}
  /\ Room(net')
  /\ UNCHANGED <<appVars, duVars, config, trVars, gcInst, gcMounts,
                 gradcamData, reported>>

\* GradCAMViewer.js:30-62: the status request r is answered: "completed"
\* with data, "computing", any other status ("other"), or it fails ("fail")
GradCAMStatus(r, outcome) ==
  LET live == r.inst = gcInst IN
  /\ UNCHANGED others
  /\ r \in net /\ r.kind = "gcStatus"
  /\ gradcamData' = IF live /\ outcome = "completed" THEN TRUE ELSE gradcamData
  /\ gcIsLoading' = IF live /\ outcome # "computing" THEN FALSE ELSE gcIsLoading
  /\ net' = (net \ {r}) \cup
            (IF outcome = "computing"
             THEN {Req("gcTimer", r.inst, EmptyConfig, r.sid)} ELSE {})
  /\ reported' = IF outcome \in {"other", "fail"} THEN "toast" ELSE reported
  /\ UNCHANGED <<appVars, duVars, config, trVars, gcInst, gcMounts>>

\* GradCAMViewer.js:47, 88: the 3 s timer r fires and fetchGradCAMData
\* issues the next status request
GradCAMTimerFire(r) ==
  LET live == r.inst = gcInst IN
  /\ UNCHANGED others
  /\ r \in net /\ r.kind = "gcTimer"
  /\ gcIsLoading' = IF live THEN TRUE ELSE gcIsLoading
  /\ net' = (net \ {r}) \cup {Req("gcStatus", r.inst, EmptyConfig, r.sid)}
  /\ UNCHANGED <<appVars, duVars, config, trVars, gcInst, gcMounts,
                 gradcamData, reported>>

\* GradCAMViewer.js:65-80 behind Compute Grad-CAM Now (:145)
StartGradCAMComputation ==
  /\ UNCHANGED others
  /\ gcInst # 0
  /\ ~gcIsLoading /\ ~gradcamData
  /\ uploadedData.preview.sid # 0
  /\ gcIsLoading' = TRUE
  /\ net' = net \cup {Req("gcStart", gcInst, EmptyConfig,
                          uploadedData.preview.sid)}
  /\ Room(net')
  /\ UNCHANGED <<appVars, duVars, config, trVars, gcInst, gcMounts,
                 gradcamData, reported>>

\* GradCAMViewer.js:82-96: the compute request r of the viewer is answered
\* (ok: poll after 3 s) or fails
StartGradCAMDone(r, ok) ==
  LET live == r.inst = gcInst IN
  /\ UNCHANGED others
  /\ r \in net /\ r.kind = "gcStart"
  /\ gcIsLoading' = IF live /\ ~ok THEN FALSE ELSE gcIsLoading
  /\ net' = (net \ {r}) \cup
            (IF ok THEN {Req("gcTimer", r.inst, EmptyConfig, r.sid)} ELSE {})
  /\ reported' = IF ok THEN reported ELSE "toast"
  /\ UNCHANGED <<appVars, duVars, config, trVars, gcInst, gcMounts,
                 gradcamData>>

\* ----------------------------------------------------------- ModelTesting
Models == 1 .. MaxModels
Sessions == 1 .. MaxSessions

\* the CSV text as its comma-separated fields: <<>> is '', <<" ">> is a
\* string of white space only
CsvInputs == {<<>>, <<" ">>, <<"1", "2">>, <<"1", "2", "3">>, <<"1", "x", "3">>}
\* api.js:331: a field v is numeric when isNaN(parseFloat(v)) is false
IsNumeric(v) == v \in {"1", "2", "3"}
\* ModelTesting.js:158: the number of values the panel expects
ExpectedValues == 3
\* String.prototype.trim, as far as the emptiness tests of the panel see it
CsvTrim(csvData) == IF csvData = <<" ">> THEN <<>> ELSE csvData

NoTimer == [set |-> FALSE, input |-> <<>>, sid |-> 0]
Timer(input, sid) == [set |-> TRUE, input |-> input, sid |-> sid]

\* a request or timer of the testing panel: live while the instance that
\* made it is mounted; rc and sid are the retryCount and sessionId its
\* closure captured; id numbers a prediction request
MtReq(k, rc, sid, id, model) ==
  [kind |-> k, live |-> TRUE, rc |-> rc, sid |-> sid, id |-> id,
   model |-> model]
MtRoom(n) == Cardinality(n) <= MaxTestInFlight

MtMounted == currentView = "test"

mtListVars == <<availableModels, isLoadingModels, retryCount>>
mtLoadVars == <<selectedModel, isLoadingModel, loadedModel, sessionId>>
mtInputVars == <<csvInput, uploadedImage>>
mtTestVars == <<isTesting, testResults>>

\* ModelTesting.js:7-28: the useState initial values
MtFresh ==
  /\ availableModels = 0 /\ selectedModel = 0 /\ isLoadingModels = FALSE
  /\ isLoadingModel = FALSE /\ loadedModel = 0 /\ trainingDataInfo = 0
  /\ sessionId = 0 /\ csvInput = <<>> /\ uploadedImage = 0
  /\ isTesting = FALSE /\ testResults = 0 /\ csvValidation = "null"
  /\ lastError = "none" /\ retryCount = 0

\* the state of a new (or of no) instance; loading is isLoadingModels
MtReset(loading) ==
  /\ availableModels' = 0 /\ selectedModel' = 0 /\ isLoadingModels' = loading
  /\ isLoadingModel' = FALSE /\ loadedModel' = 0 /\ trainingDataInfo' = 0
  /\ sessionId' = 0 /\ csvInput' = <<>> /\ uploadedImage' = 0
  /\ isTesting' = FALSE /\ testResults' = 0 /\ csvValidation' = "null"
  /\ lastError' = "none" /\ retryCount' = 0

\* the sessionId that the cleanup of the mount effect reads: the effect has
\* no dependencies, so it is the one of the first render (ModelTesting.js:13,
\* 30-38)
MountSessionId == 0

\* ModelTesting.js:172-180: the debounce effect runs again, clearing the
\* pending timer, when csvInput or sessionId (and with it validateCsvInput)
\* has changed
Debounce ==
  csvTimer' = IF <<csvInput', sessionId'>> # <<csvInput, sessionId>>
                THEN Timer(csvInput', sessionId')
                ELSE csvTimer

\* App.js:341-347, 392-417: 'Test Models' mounts a new ModelTesting, whose
\* mount effects call loadAvailableModels (ModelTesting.js:30-31, 40-45) and
\* start the debounce timer (:172-180)
MountModelTesting ==
  /\ UNCHANGED <<wizard, rhVars, utVars, closeSent>>
  /\ currentView = "train"
  /\ currentView' = "test"
  /\ MtReset(TRUE)
  /\ csvTimer' = Timer(<<>>, 0)
  /\ mtNet' = mtNet \cup {MtReq("models", 0, 0, 0, 0)}
  /\ MtRoom(mtNet')
  /\ UNCHANGED <<mtReqs, reported>>

\* App.js:285-291: 'Train Models' unmounts the panel; the cleanups run
\* (ModelTesting.js:33-37, 179), the requests and the retry timer stay
UnmountModelTesting ==
  /\ UNCHANGED <<wizard, rhVars, utVars, closeSent>>
  /\ MtMounted
  /\ currentView' = "train"
  /\ MtReset(FALSE)
  /\ csvTimer' = NoTimer
  /\ mtNet' = {[r EXCEPT !.live = FALSE] : r \in mtNet}
              \cup (IF MountSessionId # 0
                      THEN {[MtReq("close", 0, MountSessionId, 0, 0)
                               EXCEPT !.live = FALSE]}
                      ELSE {})
  /\ UNCHANGED <<mtReqs, reported>>

\* ModelTesting.js:46-52: /api/models answered with n models
ModelsOk(r, n) ==
  /\ UNCHANGED <<wizard, rhVars, utVars, closeSent>>
  /\ r \in mtNet /\ r.kind = "models"
  /\ mtNet' = mtNet \ {r}
  /\ IF r.live
       THEN /\ availableModels' = n
            /\ isLoadingModels' = FALSE
       ELSE UNCHANGED <<availableModels, isLoadingModels>>
  /\ UNCHANGED <<currentView, retryCount, mtLoadVars, trainingDataInfo,
                 mtInputVars, mtTestVars, csvValidation, lastError, csvTimer,
                 mtReqs, reported>>

\* ModelTesting.js:53-72: /api/models failed (network, non-OK, or an answer
\* without a models list); the retry test reads the retryCount of the
\* closure that made the request
ModelsFail(r) ==
  /\ UNCHANGED <<wizard, rhVars, utVars, closeSent>>
  /\ r \in mtNet /\ r.kind = "models"
  /\ reported' = "toast"
  /\ mtNet' = (mtNet \ {r})
              \cup (IF r.rc < 3 THEN {[r EXCEPT !.kind = "modelsTimer"]}
                                ELSE {})
  /\ IF r.live
       THEN /\ lastError' = "models"
            /\ isLoadingModels' = FALSE
       ELSE UNCHANGED <<lastError, isLoadingModels>>
  /\ UNCHANGED <<currentView, availableModels, retryCount, mtLoadVars,
                 trainingDataInfo, mtInputVars, mtTestVars, csvValidation,
                 csvTimer, mtReqs>>

\* ModelTesting.js:65-68, 40-45: the retry timer fires; loadAvailableModels
\* is the one of the closure that set the timer
ModelsTimerFire(r) ==
  /\ UNCHANGED <<wizard, rhVars, utVars, closeSent>>
  /\ r \in mtNet /\ r.kind = "modelsTimer"
  /\ mtNet' = (mtNet \ {r}) \cup {[r EXCEPT !.kind = "models"]}
  /\ IF r.live
       THEN /\ retryCount < MaxRetryCount
            /\ retryCount' = retryCount + 1
            /\ isLoadingModels' = TRUE
            /\ lastError' = "none"
       ELSE UNCHANGED <<retryCount, isLoadingModels, lastError>>
  /\ UNCHANGED <<currentView, availableModels, mtLoadVars, trainingDataInfo,
                 mtInputVars, mtTestVars, csvValidation, csvTimer, mtReqs,
                 reported>>

\* ModelTesting.js:40-45 behind the Refresh Models button (:415-427)
RefreshModels ==
  /\ UNCHANGED <<wizard, rhVars, utVars, closeSent>>
  /\ MtMounted
  /\ ~isLoadingModels /\ availableModels = 0
  /\ isLoadingModels' = TRUE
  /\ lastError' = "none"
  /\ mtNet' = mtNet \cup {MtReq("models", retryCount, 0, 0, 0)}
  /\ MtRoom(mtNet')
  /\ UNCHANGED <<currentView, availableModels, retryCount, mtLoadVars,
                 trainingDataInfo, mtInputVars, mtTestVars, csvValidation,
                 csvTimer, mtReqs, reported>>

\* ModelTesting.js:75-99 behind the select (:430-435); m = 0 is the empty
\* option
HandleModelSelect(m) ==
  /\ UNCHANGED <<wizard, rhVars, utVars, closeSent>>
  /\ MtMounted
  /\ ~isLoadingModels /\ availableModels # 0 /\ ~isLoadingModel
  /\ m \in 0 .. availableModels
  /\ m # selectedModel
  /\ IF m = 0
       THEN /\ selectedModel' = 0
            /\ loadedModel' = 0
            /\ sessionId' = 0
            /\ UNCHANGED <<isLoadingModel, lastError, mtNet>>
       ELSE /\ isLoadingModel' = TRUE
            /\ lastError' = "none"
            /\ mtNet' = mtNet \cup {MtReq("load", 0, sessionId, 0, m)}
            /\ MtRoom(mtNet')
            /\ UNCHANGED <<selectedModel, loadedModel, sessionId>>
  /\ UNCHANGED <<currentView, mtListVars, trainingDataInfo, mtInputVars,
                 mtTestVars, csvValidation, mtReqs, reported>>
  /\ Debounce

\* ModelTesting.js:100-113, 121-131: /api/load-model answered with session s;
\* loadTrainingDataInfo is the one of the closure that made the request
LoadModelOk(r, s) ==
  /\ UNCHANGED <<wizard, rhVars, utVars>>
  /\ r \in mtNet /\ r.kind = "load"
  /\ mtNet' = (mtNet \ {r}) \cup {[r EXCEPT !.kind = "info"]}
  /\ IF r.live
       THEN /\ selectedModel' = r.model
            /\ loadedModel' = r.model
            /\ sessionId' = s
            /\ testResults' = 0
            /\ csvValidation' = "null"
            /\ isLoadingModel' = FALSE
       ELSE UNCHANGED <<mtLoadVars, testResults, csvValidation>>
  /\ closeSent' = closeSent \ {s}
  /\ UNCHANGED <<currentView, mtListVars, trainingDataInfo, mtInputVars,
                 isTesting, lastError, mtReqs, reported>>
  /\ Debounce

\* ModelTesting.js:114-123: /api/load-model failed
LoadModelFail(r) ==
  /\ UNCHANGED <<wizard, rhVars, utVars, closeSent>>
  /\ r \in mtNet /\ r.kind = "load"
  /\ mtNet' = mtNet \ {r}
  /\ reported' = "toast"
  /\ IF r.live
       THEN /\ lastError' = "load"
            /\ isLoadingModel' = FALSE
       ELSE UNCHANGED <<lastError, isLoadingModel>>
  /\ UNCHANGED <<currentView, mtListVars, selectedModel, loadedModel,
                 sessionId, trainingDataInfo, mtInputVars, mtTestVars,
                 csvValidation, csvTimer, mtReqs>>

\* ModelTesting.js:133-147: /api/training-data-info answered (ok) or failed
TrainingDataInfoDone(r, ok) ==
  /\ UNCHANGED <<wizard, rhVars, utVars, closeSent>>
  /\ r \in mtNet /\ r.kind = "info"
  /\ mtNet' = mtNet \ {r}
  /\ reported' = IF ok THEN reported ELSE "console"
  /\ trainingDataInfo' = IF ~r.live THEN trainingDataInfo
                         ELSE IF ok THEN r.model ELSE 0
  /\ UNCHANGED <<currentView, mtListVars, mtLoadVars, mtInputVars,
                 mtTestVars, csvValidation, lastError, csvTimer, mtReqs>>

\* ModelTesting.js:150-170
ValidateCsvInput(csvData, sid) ==
  IF CsvTrim(csvData) = <<>> \/ sid = 0 THEN "null"
  ELSE IF Len(CsvTrim(csvData)) = ExpectedValues THEN "valid"
  ELSE "invalid"

\* the textarea (ModelTesting.js:530-536), rendered with the loaded model
SetCsvInput(v) ==
  /\ UNCHANGED <<wizard, rhVars, utVars, closeSent>>
  /\ MtMounted /\ loadedModel # 0
  /\ v # csvInput
  /\ csvInput' = v
  /\ UNCHANGED <<currentView, mtListVars, mtLoadVars, trainingDataInfo,
                 uploadedImage, mtTestVars, csvValidation, lastError, mtNet,
                 mtReqs, reported>>
  /\ Debounce

\* ModelTesting.js:173-178: the debounce timer fires with the csvInput and
\* sessionId of the render that set it
CsvTimerFire ==
  /\ UNCHANGED <<wizard, rhVars, utVars, closeSent>>
  /\ csvTimer.set
  /\ csvTimer' = NoTimer
  /\ csvValidation' = IF csvTimer.input # <<>> /\ csvTimer.sid # 0
                        THEN ValidateCsvInput(csvTimer.input, csvTimer.sid)
                        ELSE csvValidation
  /\ UNCHANGED <<currentView, mtListVars, mtLoadVars, trainingDataInfo,
                 mtInputVars, mtTestVars, lastError, mtNet, mtReqs, reported>>

\* ModelTesting.js:182-207 behind the CSV test button (:540-543)
HandleCsvTest ==
  /\ UNCHANGED <<wizard, rhVars, utVars, closeSent>>
  /\ MtMounted /\ loadedModel # 0
  /\ ~(CsvTrim(csvInput) = <<>> \/ isTesting \/ csvValidation = "invalid")
  /\ mtReqs < MaxTests
  /\ IF CsvTrim(csvInput) = <<>> \/ sessionId = 0
        \/ csvValidation = "invalid"
       THEN UNCHANGED <<isTesting, lastError, mtNet, mtReqs>>
       ELSE /\ isTesting' = TRUE
            /\ lastError' = "none"
            /\ mtReqs' = mtReqs + 1
            /\ mtNet' = mtNet \cup {MtReq("csv", 0, sessionId, mtReqs', 0)}
            /\ MtRoom(mtNet')
  /\ UNCHANGED <<currentView, mtListVars, mtLoadVars, trainingDataInfo,
                 mtInputVars, testResults, csvValidation, csvTimer, reported>>

\* ModelTesting.js:228-241: a file dropped on the image dropzone (:575-583)
OnImageDrop(tooLarge) ==
  /\ UNCHANGED <<wizard, rhVars, utVars, closeSent>>
  /\ MtMounted /\ loadedModel # 0
  /\ uploadedImage = 0
  /\ uploadedImage' = IF tooLarge THEN 0 ELSE 1
  /\ UNCHANGED <<currentView, mtListVars, mtLoadVars, trainingDataInfo,
                 csvInput, mtTestVars, csvValidation, lastError, csvTimer,
                 mtNet, mtReqs, reported>>

\* ModelTesting.js:297-300 behind the remove button (:602)
ClearImageUpload ==
  /\ UNCHANGED <<wizard, rhVars, utVars, closeSent>>
  /\ MtMounted /\ loadedModel # 0
  /\ uploadedImage # 0
  /\ uploadedImage' = 0
  /\ UNCHANGED <<currentView, mtListVars, mtLoadVars, trainingDataInfo,
                 csvInput, mtTestVars, csvValidation, lastError, csvTimer,
                 mtNet, mtReqs, reported>>

\* ModelTesting.js:253-276 behind the image test button (:618-621)
HandleImageTest ==
  /\ UNCHANGED <<wizard, rhVars, utVars, closeSent>>
  /\ MtMounted /\ loadedModel # 0
  /\ uploadedImage # 0 /\ ~isTesting
  /\ mtReqs < MaxTests
  /\ IF uploadedImage = 0 \/ sessionId = 0
       THEN UNCHANGED <<isTesting, lastError, mtNet, mtReqs>>
       ELSE /\ isTesting' = TRUE
            /\ lastError' = "none"
            /\ mtReqs' = mtReqs + 1
            /\ mtNet' = mtNet \cup {MtReq("image", 0, sessionId, mtReqs', 0)}
            /\ MtRoom(mtNet')
  /\ UNCHANGED <<currentView, mtListVars, mtLoadVars, trainingDataInfo,
                 mtInputVars, testResults, csvValidation, csvTimer, reported>>

\* ModelTesting.js:208-212, 222-225 and 277-281, 291-294: the prediction
\* request r answered with a result
PredictionOk(r) ==
  /\ UNCHANGED <<wizard, rhVars, utVars, closeSent>>
  /\ r \in mtNet /\ r.kind \in {"csv", "image"}
  /\ mtNet' = mtNet \ {r}
  /\ IF r.live
       THEN /\ testResults' = r.id
            /\ isTesting' = FALSE
       ELSE UNCHANGED <<testResults, isTesting>>
  /\ UNCHANGED <<currentView, mtListVars, mtLoadVars, trainingDataInfo,
                 mtInputVars, csvValidation, lastError, csvTimer, mtReqs,
                 reported>>

\* ModelTesting.js:213-225 and 282-294: the prediction request r failed
PredictionFail(r) ==
  /\ UNCHANGED <<wizard, rhVars, utVars, closeSent>>
  /\ r \in mtNet /\ r.kind \in {"csv", "image"}
  /\ mtNet' = mtNet \ {r}
  /\ reported' = "toast"
  /\ IF r.live
       THEN /\ lastError' = r.kind
            /\ isTesting' = FALSE
       ELSE UNCHANGED <<lastError, isTesting>>
  /\ UNCHANGED <<currentView, mtListVars, mtLoadVars, trainingDataInfo,
                 mtInputVars, testResults, csvValidation, csvTimer, mtReqs>>

\* ModelTesting.js:302-312 behind the Close Session button (:737-745)
CloseSession ==
  /\ UNCHANGED <<wizard, rhVars, utVars>>
  /\ MtMounted /\ sessionId # 0
  /\ mtNet' = mtNet \cup {MtReq("close", 0, sessionId, 0, 0)}
  /\ mtNet' # mtNet
  /\ closeSent' = closeSent \cup {sessionId}
  /\ MtRoom(mtNet')
  /\ UNCHANGED <<currentView, mtListVars, mtLoadVars, trainingDataInfo,
                 mtInputVars, mtTestVars, csvValidation, lastError, csvTimer,
                 mtReqs, reported>>

\* ModelTesting.js:305-315: /api/close-session answered, whatever the status
\* (ok), or the request failed
CloseSessionDone(r, ok) ==
  /\ UNCHANGED <<wizard, rhVars, utVars, closeSent>>
  /\ r \in mtNet /\ r.kind = "close"
  /\ mtNet' = mtNet \ {r}
  /\ reported' = IF ok THEN reported ELSE "console"
  /\ UNCHANGED <<currentView, mtListVars, mtLoadVars, trainingDataInfo,
                 mtInputVars, mtTestVars, csvValidation, lastError, csvTimer,
                 mtReqs>>

\* ------------------------------------- ErrorHandler.createRetryHandler
\* the values an operation throws, by the words of their message; the value
\* "noMessage" has no message string (a thrown string or plain object)
Errors == {"timeout", "notFound", "inputNotValid", "noMessage"}
HasMessage(error) == error # "noMessage"
Message(error) ==
  CASE error = "timeout" -> <<"Request", "timed", "out">>
    [] error = "notFound" -> <<"Model", "Not", "Found">>
    [] error = "inputNotValid" -> <<"Input", "not", "valid">>

\* String.prototype.toLowerCase on the words of the messages
LowerWord(w) ==
  CASE w = "Request" -> "request"
    [] w = "Model" -> "model"
    [] w = "Not" -> "not"
    [] w = "Found" -> "found"
    [] w = "Input" -> "input"
    [] w = "Failed" -> "failed"
    [] w = "Internal" -> "internal"
    [] w = "Session" -> "session"
    [] w = "Validation" -> "validation"
    [] w = "Unable" -> "unable"
    [] w = "Please" -> "please"
    [] w = "An" -> "an"
    [] w = "DATA" -> "data"
    [] w = "CSV" -> "csv"
    [] w = "PNG" -> "png"
    [] OTHER -> w
ToLowerCase(msg) == [i \in 1 .. Len(msg) |-> LowerWord(msg[i])]

\* String.prototype.includes, word by word
Includes(msg, pattern) ==
  \E i \in 1 .. (Len(msg) - Len(pattern) + 1) :
    SubSeq(msg, i, i + Len(pattern) - 1) = pattern

\* api.js:429-436
NoRetryPatterns ==
  {<<"validation">>, <<"invalid", "input">>, <<"not", "found">>,
   <<"unauthorized">>, <<"forbidden">>, <<"bad", "request">>}

\* api.js:428-440, for an error that has a message
ShouldNotRetry(error) ==
  \E pattern \in NoRetryPatterns : Includes(ToLowerCase(Message(error)), pattern)

\* api.js:396: the handler is made for an operation, maxRetries and delay
CreateRetryHandler(maxRetries, delay) ==
  /\ UNCHANGED <<trainSide, mtVars, utVars>>
  /\ rhPc \in {"idle", "returned", "thrown"}
  /\ rhPc' = "created"
  /\ rhMaxRetries' = maxRetries
  /\ rhDelay' = delay
  /\ rhAttempt' = 0
  /\ rhLastError' = "undefined"
  /\ rhWaits' = <<>>
  /\ rhCalls' = 0
  /\ rhResult' = "none"

\* api.js:397-400, 419: the returned function is called and enters its loop;
\* with no attempt to make it throws lastError, which is undefined
RhInvoke ==
  /\ UNCHANGED <<trainSide, mtVars, utVars>>
  /\ rhPc = "created"
  /\ rhAttempt' = 1
  /\ IF 1 <= rhMaxRetries
       THEN /\ rhPc' = "call"
            /\ UNCHANGED rhResult
       ELSE /\ rhPc' = "thrown"
            /\ rhResult' = rhLastError
  /\ UNCHANGED <<rhMaxRetries, rhDelay, rhLastError, rhWaits, rhCalls>>

\* api.js:401-402: the operation is called and returns
OperationOk ==
  /\ UNCHANGED <<trainSide, mtVars, utVars>>
  /\ rhPc = "call"
  /\ rhCalls' = rhCalls + 1
  /\ rhPc' = "returned"
  /\ rhResult' = "ok"
  /\ UNCHANGED <<rhAttempt, rhMaxRetries, rhDelay, rhLastError, rhWaits>>

\* an OperationFail whose wait does not grow with the attempt
OperationFailFlatDelay(error) ==
  /\ UNCHANGED <<trainSide, mtVars, utVars>>
  /\ rhPc = "call"
  /\ rhCalls' = rhCalls + 1
  /\ rhLastError' = error
  /\ IF ~HasMessage(error)
       THEN /\ rhPc' = "thrown"
            /\ rhResult' = "TypeError"
            /\ UNCHANGED <<rhAttempt, rhWaits>>
       ELSE IF ShouldNotRetry(error)
         THEN /\ rhPc' = "thrown"
              /\ rhResult' = error
              /\ UNCHANGED <<rhAttempt, rhWaits>>
         ELSE IF rhAttempt < rhMaxRetries
           THEN /\ rhPc' = "wait"
                /\ rhWaits' = Append(rhWaits, rhDelay)
                /\ UNCHANGED <<rhAttempt, rhResult>>
           ELSE /\ rhAttempt' = rhAttempt + 1
                /\ rhPc' = "thrown"
                /\ rhResult' = error
                /\ UNCHANGED rhWaits
  /\ UNCHANGED <<rhMaxRetries, rhDelay>>

\* api.js:401-416, 419: the operation is called and throws error.  Reading
\* the message of a value that has none throws a TypeError out of the catch
\* block (:433); an error that shouldNotRetry ends the loop; otherwise the
\* handler waits delay * attempt unless this was the last attempt
OperationFail(error) ==
  /\ UNCHANGED <<trainSide, mtVars, utVars>>
  /\ rhPc = "call"
  /\ rhCalls' = rhCalls + 1
  /\ rhLastError' = error
  /\ IF ~HasMessage(error)
       THEN /\ rhPc' = "thrown"
            /\ rhResult' = "TypeError"
            /\ UNCHANGED <<rhAttempt, rhWaits>>
       ELSE IF ShouldNotRetry(error)
         THEN /\ rhPc' = "thrown"
              /\ rhResult' = error
              /\ UNCHANGED <<rhAttempt, rhWaits>>
         ELSE IF rhAttempt < rhMaxRetries
           THEN /\ rhPc' = "wait"
                /\ rhWaits' = Append(rhWaits, rhDelay * rhAttempt)
                /\ UNCHANGED <<rhAttempt, rhResult>>
           ELSE /\ rhAttempt' = rhAttempt + 1
                /\ rhPc' = "thrown"
                /\ rhResult' = error
                /\ UNCHANGED rhWaits
  /\ UNCHANGED <<rhMaxRetries, rhDelay>>

\* api.js:414, 400: the wait is over and the loop goes to the next attempt
WaitDone ==
  /\ UNCHANGED <<trainSide, mtVars, utVars>>
  /\ rhPc = "wait"
  /\ rhAttempt' = rhAttempt + 1
  /\ IF rhAttempt' <= rhMaxRetries
       THEN /\ rhPc' = "call"
            /\ UNCHANGED rhResult
       ELSE /\ rhPc' = "thrown"
            /\ rhResult' = rhLastError
  /\ UNCHANGED <<rhMaxRetries, rhDelay, rhLastError, rhWaits, rhCalls>>

\* ------------------------------------------------------- validateFile
\* a File by the dot-separated parts of its name, its MIME type ("" when the
\* browser knows none) and its size in bytes
FileNames ==
  {<<"data", "csv">>, <<"DATA", "CSV">>, <<"photo", "PNG">>,
   <<"notes", "txt">>, <<"archive", "tar", "gz">>, <<"zip">>}
FileTypes == {"text/csv", "image/png", "image/gif", ""}
\* api.js:629: the default of maxSize
DefaultMaxSize == 1024 * 1024 * 1024
\* api.js:638-644
AllowedTypes ==
  {"text/csv", "image/png", "image/jpeg", "image/jpg", "application/zip"}
\* api.js:648
AllowedExtensions == {"csv", "png", "jpg", "jpeg", "zip"}
\* api.js:647: file.name.split(".").pop().toLowerCase()
PopExtension(name) == LowerWord(name[Len(name)])

\* api.js:629-661; an error is kept by the check that pushed it
ValidateFile(file, maxSize) ==
  LET sizeErrors == IF file.size > maxSize THEN <<"size">> ELSE <<>>
      typeErrors ==
        IF file.type \notin AllowedTypes
           /\ PopExtension(file.name) \notin AllowedExtensions
          THEN <<"type">> ELSE <<>>
      errors == sizeErrors \o typeErrors
  IN [isValid |-> Len(errors) = 0, errors |-> errors]

\* a call of validateFile
CallValidateFile(file, maxSize) ==
  /\ UNCHANGED <<trainSide, mtVars, rhVars, ehArgs, ehResult, hcVars>>
  /\ vfArgs' = [file |-> file, maxSize |-> maxSize]
  /\ vfResult' = ValidateFile(file, maxSize)

\* ------------------------------------- ErrorHandler.handleApiError
\* the errors handed to the handler: the name of the error and the words of
\* its message (<<>> is the empty message)
ApiErrors ==
  {[name |-> "TypeError", message |-> <<"Failed", "to", "fetch">>],
   [name |-> "TypeError", message |-> <<"x", "is", "undefined">>],
   [name |-> "Error", message |-> <<"Internal", "server", "error">>],
   [name |-> "Error", message |-> <<"Model", "Not", "Found">>],
   [name |-> "Error", message |-> <<"Session", "expired">>],
   [name |-> "Error", message |-> <<"Validation", "failed", "Internal", "server", "error">>],
   [name |-> "Error", message |-> <<"Request", "timed", "out">>],
   [name |-> "Error", message |-> <<>>]}
\* api.js:213
UnknownError == <<"An", "unknown", "error", "occurred">>
\* api.js:217
UnableToConnect ==
  <<"Unable", "to", "connect", "to", "the", "server.", "Please", "ensure",
    "the", "server", "is", "running.">>
\* api.js:247-249
CriticalPatterns ==
  {<<"server", "error">>, <<"network", "error">>, <<"failed", "to", "fetch">>,
   <<"service", "unavailable">>}
\* api.js:251-253
WarningPatterns ==
  {<<"validation">>, <<"invalid", "input">>, <<"not", "found">>, <<"expired">>}

\* api.js:246-266
GetErrorSeverity(message) ==
  LET lowercaseMessage == ToLowerCase(message) IN
  IF \E pattern \in CriticalPatterns : Includes(lowercaseMessage, pattern)
    THEN "critical"
  ELSE IF \E pattern \in WarningPatterns : Includes(lowercaseMessage, pattern)
    THEN "warning"
  ELSE "info"

\* api.js:292-303
GetErrorTitle(severity) ==
  CASE severity = "critical" -> "Critical Error"
    [] severity = "warning" -> "Warning"
    [] severity = "info" -> "Information"
    [] OTHER -> "Error"

\* api.js:212-238; userMessage, advice and timestamp are left out
HandleApiError(error, context) ==
  LET given == IF error.message = <<>> THEN UnknownError ELSE error.message
      message == IF error.name = "TypeError" /\ Includes(given, <<"fetch">>)
                   THEN UnableToConnect ELSE given
  IN [originalMessage |-> message,
      context |-> context,
      isNetworkError |-> error.name = "TypeError" \/ Includes(message, <<"fetch">>),
      isServerError |-> \/ Includes(message, <<"Internal", "server", "error">>)
                        \/ Includes(message, <<"500">>),
      isValidationError |-> \/ Includes(message, <<"validation">>)
                            \/ Includes(message, <<"invalid">>),
      severity |-> GetErrorSeverity(message)]

\* api.js:274-285
CreateDisplayError(message, context) ==
  LET errorInfo == HandleApiError([name |-> "Error", message |-> message], context)
  IN [title |-> GetErrorTitle(errorInfo.severity),
      canRetry |-> ~errorInfo.isServerError,
      severity |-> errorInfo.severity,
      context |-> context]

\* a call of getErrorSeverity
CallGetErrorSeverity(message) ==
  /\ UNCHANGED <<trainSide, mtVars, rhVars, vfArgs, vfResult, hcVars>>
  /\ ehArgs' = [fn |-> "getErrorSeverity", name |-> "none", message |-> message]
  /\ ehResult' = [severity |-> GetErrorSeverity(message)]

\* a call of handleApiError
CallHandleApiError(error, context) ==
  /\ UNCHANGED <<trainSide, mtVars, rhVars, vfArgs, vfResult, hcVars>>
  /\ ehArgs' = [fn |-> "handleApiError", name |-> error.name, message |-> error.message]
  /\ ehResult' = HandleApiError(error, context)

\* a call of createDisplayError
CallCreateDisplayError(message, context) ==
  /\ UNCHANGED <<trainSide, mtVars, rhVars, vfArgs, vfResult, hcVars>>
  /\ ehArgs' = [fn |-> "createDisplayError", name |-> "Error", message |-> message]
  /\ ehResult' = CreateDisplayError(message, context)

\* ------------------------------------------------- App.checkSystemHealth
\* a call of checkSystemHealth up to its await (App.js:31-33) is a request
\* with the connectionStatus (cs) and lastError (le) of the render its
\* closure is from.  App.js:24-29: the mount effect runs once, so the call
\* on mount and every call of the interval are the checkSystemHealth of the
\* first render
FirstRenderCheck == [cs |-> "checking", le |-> "null"]

\* App.js:26: the 30 s interval fires
HealthTimerFire ==
  /\ UNCHANGED <<trainSide, mtVars, rhVars, vfArgs, vfResult, ehArgs, ehResult>>
  /\ FirstRenderCheck \notin healthNet
  /\ healthNet' = healthNet \cup {FirstRenderCheck}
  /\ UNCHANGED <<connectionStatus, appLastError>>

\* App.js:165-170: the Retry button of the 'disconnected' banner
RetryHealthCheck ==
  /\ UNCHANGED <<trainSide, mtVars, rhVars, vfArgs, vfResult, ehArgs, ehResult>>
  /\ connectionStatus = "disconnected"
  /\ [cs |-> connectionStatus, le |-> appLastError] \notin healthNet
  /\ healthNet' =
       healthNet \cup {[cs |-> connectionStatus, le |-> appLastError]}
  /\ UNCHANGED <<connectionStatus, appLastError>>

\* App.js:35-48: the check r is answered OK
HealthOk(r) ==
  /\ UNCHANGED <<trainSide, mtVars, rhVars, vfArgs, vfResult, ehArgs, ehResult>>
  /\ r \in healthNet
  /\ healthNet' = healthNet \ {r}
  /\ connectionStatus' = "connected"
  /\ appLastError' = IF r.le = "connection" THEN "null" ELSE appLastError

\* App.js:49-66: the check r fails (network error, bad JSON or non-OK)
HealthFail(r) ==
  /\ UNCHANGED <<trainSide, mtVars, rhVars, vfArgs, vfResult, ehArgs, ehResult>>
  /\ r \in healthNet
  /\ healthNet' = healthNet \ {r}
  /\ connectionStatus' = "disconnected"
  /\ appLastError' = IF r.cs = "connected" THEN "connection" ELSE appLastError

\* ------------------------------------------------- the wizard specification
\* the testing panel and the retry handler are idle in this specification
MtIdle ==
  /\ MtFresh /\ csvTimer = NoTimer /\ mtNet = {} /\ mtReqs = 0
  /\ closeSent = {}

RhIdle ==
  /\ rhPc = "idle" /\ rhAttempt = 0 /\ rhMaxRetries = 0 /\ rhDelay = 0
  /\ rhLastError = "undefined" /\ rhWaits = <<>> /\ rhCalls = 0
  /\ rhResult = "none"

\* App.js:11-16 and the initial state of the mounted upload panel
TrainInit ==
  /\ currentView = "train" /\ currentStep = 1
  /\ uploadedData = NoData /\ trainingConfig = EmptyConfig
  /\ trainingResults = 0 /\ isTraining = FALSE
  /\ uploadedFile = 0 /\ isProcessing = FALSE /\ previewData = NoPreview
  /\ uploads = {}
  /\ config = EmptyConfig
  /\ trInst = 0 /\ trMounts = 0 /\ trainingData = 0 /\ currentEpoch = 0
  /\ currentBatch = 0 /\ isStoppingTraining = FALSE /\ activeTab = "charts"
  /\ showGradCAMTab = FALSE /\ gradcamLoading = FALSE /\ isExporting = FALSE
  /\ gcInst = 0 /\ gcMounts = 0 /\ gradcamData = FALSE /\ gcIsLoading = FALSE
  /\ net = {} /\ reported = "none"

\* no call of validateFile or of the error handler has been made
NoCall == [fn |-> "none"]
UtIdle ==
  /\ vfArgs = NoCall /\ vfResult = NoCall
  /\ ehArgs = NoCall /\ ehResult = NoCall

\* App.js:20-29: the first render and the health check of the mount effect
HcInit ==
  /\ connectionStatus = "checking" /\ appLastError = "null"
  /\ healthNet = {FirstRenderCheck}

Init == TrainInit /\ MtIdle /\ RhIdle /\ UtIdle /\ HcInit

Progress == 0 .. MaxProgress

Next ==
  \/ \E v \in {"train", "test"} : SetCurrentView(v)
  \/ \E f \in Files : OnDrop(f)
  \/ \E f \in Files : UploadOk(f, f)
  \/ \E f \in Files : UploadFail(f)
  \/ RemoveFile
  \/ HandleProceed
  \/ \E m \in ModelTypeChoices : HandleModelTypeChange(m)
  \/ \E e \in EpochInputs : HandleConfigChange(e)
  \/ HandleStartTraining
  \/ OnBack
  \/ \E r \in net : StartOk(r)
  \/ \E r \in net : StartFail(r)
  \/ \E r \in net : PollTimerFire(r)
  \/ \E r \in net, st \in Statuses, e \in Progress, h \in Progress :
        PollResponse(r, st, e, h, h)
  \/ \E r \in net : PollFail(r)
  \/ \E r \in net : GradCamOk(r)
  \/ \E r \in net, thrown \in BOOLEAN : GradCamFail(r, thrown)
  \/ HandleStopTraining
  \/ \E r \in net : StopOk(r)
  \/ \E r \in net : StopFail(r)
  \/ HandleResetTrainingState
  \/ \E r \in net : ResetOk(r)
  \/ \E r \in net : ResetFail(r)
  \/ HandleExport
  \/ \E r \in net, ok \in BOOLEAN : ExportDone(r, ok)
  \/ \E t \in Tabs : SetActiveTab(t)
  \/ TrainNewModel
  \/ FetchGradCAMData
  \/ \E r \in net, o \in {"completed", "computing", "other", "fail"} :
        GradCAMStatus(r, o)
  \/ \E r \in net : GradCAMTimerFire(r)
  \/ StartGradCAMComputation
  \/ \E r \in net, ok \in BOOLEAN : StartGradCAMDone(r, ok)

Spec == Init /\ [][Next]_vars

\* ------------------------------------------ the testing-panel specification
NextTest ==
  \/ MountModelTesting
  \/ UnmountModelTesting
  \/ \E r \in mtNet, n \in 0 .. MaxModels : ModelsOk(r, n)
  \/ \E r \in mtNet : ModelsFail(r)
  \/ \E r \in mtNet : ModelsTimerFire(r)
  \/ RefreshModels
  \/ \E m \in 0 .. MaxModels : HandleModelSelect(m)
  \/ \E r \in mtNet, s \in Sessions : LoadModelOk(r, s)
  \/ \E r \in mtNet : LoadModelFail(r)
  \/ \E r \in mtNet, ok \in BOOLEAN : TrainingDataInfoDone(r, ok)
  \/ \E v \in CsvInputs : SetCsvInput(v)
  \/ CsvTimerFire
  \/ HandleCsvTest
  \/ \E tooLarge \in BOOLEAN : OnImageDrop(tooLarge)
  \/ ClearImageUpload
  \/ HandleImageTest
  \/ \E r \in mtNet : PredictionOk(r)
  \/ \E r \in mtNet : PredictionFail(r)
  \/ CloseSession
  \/ \E r \in mtNet, ok \in BOOLEAN : CloseSessionDone(r, ok)

SpecTest == Init /\ [][NextTest]_vars

\* ----------------------------------------- the retry-handler specification
\* delays in ms; 1000 is the default (api.js:396)
Delays == {1000, 250, 0}

NextRetry ==
  \/ \E maxRetries \in 0 .. MaxRetriesArg, delay \in Delays :
       CreateRetryHandler(maxRetries, delay)
  \/ RhInvoke
  \/ OperationOk
  \/ \E error \in Errors : OperationFail(error)
  \/ WaitDone

SpecRetry == Init /\ [][NextRetry]_vars

\* ----------------------------------------- the validation and error utilities
NextUtils ==
  \/ \E name \in FileNames, type \in FileTypes,
        size \in {0, 1024 * 1024, 1024 * 1024 + 1, DefaultMaxSize + 1},
        maxSize \in {DefaultMaxSize, 1024 * 1024} :
       CallValidateFile([name |-> name, type |-> type, size |-> size], maxSize)
  \/ \E error \in ApiErrors : CallGetErrorSeverity(error.message)
  \/ \E error \in ApiErrors, context \in {"", "Data Upload"} :
       CallHandleApiError(error, context)
  \/ \E error \in ApiErrors, context \in {"", "Data Upload"} :
       CallCreateDisplayError(error.message, context)

SpecUtils == Init /\ [][NextUtils]_vars

\* ------------------------------------------------- a run and its polling
\* the steps of a training run from the upload to its end, with the
\* scheduling of the browser: a request in flight is answered and a pending
\* timer fires
StartAnswered == \E r \in net : StartOk(r) \/ StartFail(r)
PollTimerFires == \E r \in net : PollTimerFire(r)
PollAnswered ==
  \E r \in net :
    \/ \E st \in Statuses, e \in Progress, h \in Progress :
         PollResponse(r, st, e, h, h)
    \/ PollFail(r)
StopAnswered == \E r \in net : StopOk(r) \/ StopFail(r)

NextRun ==
  \/ \E f \in Files : OnDrop(f)
  \/ \E f \in Files : UploadOk(f, f)
  \/ HandleProceed
  \/ HandleStartTraining
  \/ StartAnswered
  \/ PollTimerFires
  \/ PollAnswered
  \/ HandleStopTraining
  \/ StopAnswered

SpecRun ==
  /\ Init /\ [][NextRun]_vars
  /\ WF_vars(StartAnswered)
  /\ WF_vars(PollTimerFires)
  /\ WF_vars(PollAnswered)
  /\ WF_vars(StopAnswered)

\* ------------------------------------- the health check and the wizard
\* App's health check next to the upload and configuration panels, which
\* App renders with disabled={connectionStatus === 'disconnected'}
\* (App.js:392-406); neither panel reads the prop (part_001:5,
\* TrainingConfig.js:4)
NextHealth ==
  \/ HealthTimerFire
  \/ RetryHealthCheck
  \/ \E r \in healthNet : HealthOk(r)
  \/ \E r \in healthNet : HealthFail(r)
  \/ \E f \in Files : OnDrop(f)
  \/ \E f \in Files : UploadOk(f, f)
  \/ \E f \in Files : UploadFail(f)
  \/ RemoveFile
  \/ HandleProceed
  \/ HandleStartTraining
  \/ OnBack

SpecHealth == Init /\ [][NextHealth]_vars

\* ------------------------------------------------------------ the claims
Terminal == {"completed", "error", "stopped"}

\* C1 (as claimed): the handling of a progress response whose status is not
\* 'completed', 'error' or 'stopped' schedules the next poll, so that polling
\* stops only on a terminal status; a failed poll schedules the next poll too.
C1_PollsUntilTerminal ==
  [][\A r \in net :
       /\ \A st \in Statuses \ Terminal, e \in Progress, h \in Progress :
            PollResponse(r, st, e, h, h)
              => Req("pollTimer", r.inst, r.cfg, 0) \in net'
       /\ PollFail(r) => Req("pollTimer", r.inst, r.cfg, 0) \in net'
    ]_vars

\* C2 (as claimed): a progress response handled when the run has already
\* ended for App (isTraining is false: the user stopped it or the application
\* was reset) changes neither isTraining, trainingResults, the displayed
\* epoch nor the history, and leaves no poll scheduled for its chain.
C2_StaleResponseDiscarded ==
  [][\A r \in net, st \in Statuses, e \in Progress, h \in Progress :
       (~isTraining /\ PollResponse(r, st, e, h, h))
         => /\ UNCHANGED <<isTraining, trainingResults, currentEpoch,
                           trainingData>>
            /\ Req("pollTimer", r.inst, r.cfg, 0) \notin net'
    ]_vars

\* C3 (as claimed): every training-progress request is issued by the mounted
\* results panel and every gradcam-status request by the mounted viewer; an
\* unmounted instance issues none.
C3_NoRequestAfterUnmount ==
  [][\A r \in net' \ net :
       /\ r.kind = "poll" => (r.inst = trInst' /\ trInst' # 0)
       /\ r.kind = "gcStatus" => (r.inst = gcInst' /\ gcInst' # 0)
    ]_vars

\* C6 (as claimed): every failed backend request is reported to the user by
\* a toast or a banner, never to the console only and never dropped.
C6_FailuresSurfaced == reported \in {"none", "toast"}

\* the training run state the results panel displays: epoch, history, batch
\* progress, and the terminal status read from isTraining and results
\* (getTrainingStatus, TrainingResults.js:289-312)
runProgress == <<currentEpoch, trainingData, currentBatch>>
runState == <<runProgress, isTraining, trainingResults>>

PollHandled ==
  \E r \in net, st \in Statuses, e \in Progress, h \in Progress :
    PollResponse(r, st, e, h, h)

\* C7 (as claimed): a step of the results panel that is not the handling of
\* a progress response (stop, reset state, export, tab switch, Grad-CAM
\* start, and their answers) leaves the training run state unchanged.
C7_OnlyPollsMutateRun ==
  [][(\/ HandleStopTraining
      \/ \E r \in net : StopOk(r) \/ StopFail(r)
      \/ HandleResetTrainingState
      \/ \E r \in net : ResetOk(r) \/ ResetFail(r)
      \/ HandleExport
      \/ \E r \in net, ok \in BOOLEAN : ExportDone(r, ok)
      \/ \E t \in Tabs : SetActiveTab(t)
      \/ \E r \in net : GradCamOk(r)
      \/ \E r \in net, th \in BOOLEAN : GradCamFail(r, th))
     => UNCHANGED runState
    ]_vars

\* C7 (amended): while the results panel stays mounted, epoch, history and
\* batch progress change only when a progress response is handled, and the
\* terminal status changes only then, on a successful stop or on a failed
\* training start; a successful Reset State (and Train New Model) resets
\* all of it with the application.  Export, tab switch, Grad-CAM start, a
\* failed stop and a failed reset change none of it.
C7_RunMutators ==
  [][(trInst # 0 /\ runState' # runState) =>
       \/ PollHandled
       \/ /\ \E r \in net : StopOk(r) \/ StartFail(r)
          /\ UNCHANGED runProgress
       \/ /\ (\E r \in net : ResetOk(r)) \/ TrainNewModel
          /\ trInst' = 0 /\ ~isTraining' /\ trainingResults' = 0
       \/ \E v \in {"train", "test"} : SetCurrentView(v)
    ]_vars

\* C7 witness: the run has ended without results, the user has switched to
\* the export tab, and the panel still displays the epoch and the history
\* that its progress responses set
C7_Witness ==
  /\ trInst # 0 /\ ~isTraining /\ trainingResults = 0
  /\ currentEpoch > 0 /\ trainingData > 0
  /\ activeTab = "export"

\* C8: from the accepted training start until the reset (while the wizard is
\* at step 3) App's trainingConfig does not change, and the training-start
\* request of the mounted results panel carries exactly that configuration.
C8_ConfigImmutable ==
  /\ [][(currentStep = 3 /\ currentStep' = 3)
          => trainingConfig' = trainingConfig]_vars
  /\ [](\A r \in net :
          (r.kind = "start" /\ r.inst = trInst) => r.cfg = trainingConfig)
  /\ [](currentStep = 3 => trainingConfig # EmptyConfig)

\* C8 witness: a run with the EfficientNet configuration has completed and
\* the panel still holds that configuration
C8_Witness ==
  /\ currentStep = 3 /\ ~isTraining /\ trainingResults # 0
  /\ trainingConfig.modelType = "efficientnetv2"

C4_RetriesBounded == retryCount <= 3

\* C10 (as claimed): when a prediction request of the mounted panel has
\* finished, with a result or with a failure, testResults is empty or holds
\* the result of that request, never the result of an earlier one.
C10_ResultReplaced ==
  [][\A r \in mtNet :
       (r.live /\ (PredictionOk(r) \/ PredictionFail(r)))
         => testResults' \in {0, r.id}
    ]_vars

\* C5 (as claimed): the handler calls the operation at most maxRetries
\* times, a successful attempt ends it, and after the k-th failed attempt
\* with k < maxRetries it waits delay * k and goes on to the next attempt.
C5_RetryAsClaimed ==
  /\ [](rhCalls <= rhMaxRetries)
  /\ [][OperationOk => rhPc' = "returned"]_vars
  /\ [][\A error \in Errors :
          (OperationFail(error) /\ rhAttempt < rhMaxRetries)
            => /\ rhPc' = "wait"
               /\ rhWaits' = Append(rhWaits, rhDelay * rhAttempt)]_vars

\* C5 (amended): the handler calls the operation at most maxRetries times;
\* a successful attempt returns and ends it; the k-th wait is delay * k and
\* there is one wait after every failed attempt but the last one made; the
\* handler throws before maxRetries attempts only when the error of the
\* last attempt matches a no-retry pattern (it throws that error) or has no
\* message (it throws a TypeError), and in that case without waiting.
C5_BoundedBackoff ==
  /\ [](/\ rhCalls <= rhMaxRetries
        /\ \A k \in 1 .. Len(rhWaits) : rhWaits[k] = rhDelay * k
        /\ rhPc \in {"call", "wait"}
             => (Len(rhWaits) = rhCalls /\ rhCalls < rhMaxRetries)
        /\ rhPc = "returned"
             => (rhResult = "ok" /\ Len(rhWaits) = rhCalls - 1)
        /\ rhPc = "thrown"
             => /\ Len(rhWaits) = IF rhCalls = 0 THEN 0 ELSE rhCalls - 1
                /\ rhResult = IF rhLastError = "noMessage" THEN "TypeError"
                                                          ELSE rhLastError
                /\ \/ rhCalls = rhMaxRetries
                   \/ rhLastError \in {"notFound", "noMessage"})
  /\ [][(rhPc = "returned" \/ rhPc = "thrown")
          => (rhCalls' = rhCalls \/ rhPc' = "created")]_vars

\* C5 witness: made for 3 attempts, the handler has waited once after a
\* failure that may be retried and has then thrown the 'Not Found' error of
\* the second attempt without waiting again
C5_Witness ==
  /\ rhPc = "thrown" /\ rhMaxRetries = 3 /\ rhCalls = 2
  /\ rhLastError = "notFound" /\ rhResult = "notFound"
  /\ rhWaits = <<rhDelay>>

\* C11 (as claimed): the mounted testing panel drops or replaces its session
\* id only after a close-session request has been sent for that session;
\* once the request has been sent the panel no longer holds the session id,
\* and no prediction request carries the id of a session so closed.
C11_SessionLifetime ==
  /\ [][(MtMounted /\ MtMounted' /\ sessionId # 0 /\ sessionId' # sessionId)
          => sessionId \in closeSent]_vars
  /\ [](sessionId # 0 => sessionId \notin closeSent)
  /\ [](\A r \in mtNet :
          r.kind \in {"csv", "image"} => r.sid \notin closeSent)

\* C12 (as claimed): while the mounted panel holds the session id of its
\* last successful model load, every request it sends (training-data-info,
\* test-csv, test-image, close-session, load-model) carries that session id
\* in X-Session-ID; and no prediction request is without a session id.
C12_SessionHeader ==
  /\ [][\A r \in mtNet' \ mtNet :
          (r.live /\ sessionId' # 0
             /\ r.kind \in {"info", "csv", "image", "close", "load"})
            => r.sid = sessionId']_vars
  /\ [](\A r \in mtNet : r.kind \in {"csv", "image"} => r.sid # 0)

\* C13: handleStartTraining starts a training (the wizard goes from step 2
\* to step 3) only with epochs in 1..1000, a batch size in 1..512, a
\* learning rate in (0, 1] and, for efficientnetv2, image data and phase-2
\* epochs in 1..100; a value that is not a number starts nothing.
C13_StartOnlyInRange ==
  [][(currentStep = 2 /\ currentStep' = 3) =>
       /\ trainingConfig'.epochs \in 1..1000
       /\ trainingConfig'.batchSize \in 1..512
       /\ trainingConfig'.learningRate \in 1..1000
       /\ trainingConfig'.modelType = "efficientnetv2" =>
            /\ uploadedData.type = "images"
            /\ trainingConfig'.phase2_epochs \in 1..100]_vars
\* C14: a CSV input is validated before it is sent to /api/test-csv: an
\* input with the wrong number of values or with a non-numeric value is
\* never sent, also when it was edited just before the click.
C14_CsvValidatedBeforeSend ==
  [][\A r \in mtNet' \ mtNet :
       r.kind = "csv" =>
         /\ Len(CsvTrim(csvInput)) = ExpectedValues
         /\ \A i \in 1..Len(CsvTrim(csvInput)) : IsNumeric(CsvTrim(csvInput)[i])]_vars
\* C15: validateFile returns isValid exactly when the size is at most
\* maxSize and the MIME type is allowed or else the lower-cased extension of
\* the name is allowed; isValid holds exactly when errors is empty, and each
\* violated check adds exactly one error.
SizeOk(a) == a.file.size <= a.maxSize
TypeOk(a) ==
  \/ a.file.type \in AllowedTypes
  \/ /\ Len(a.file.name) >= 2
     /\ LowerWord(a.file.name[Len(a.file.name)]) \in AllowedExtensions
C15_ValidateFile ==
  vfArgs # NoCall =>
    /\ vfResult.isValid <=> (SizeOk(vfArgs) /\ TypeOk(vfArgs))
    /\ vfResult.isValid <=> vfResult.errors = <<>>
    /\ Len(vfResult.errors) = (IF SizeOk(vfArgs) THEN 0 ELSE 1)
                              + (IF TypeOk(vfArgs) THEN 0 ELSE 1)

\* C16: the severity is critical when the lower-cased message contains a
\* critical pattern, otherwise warning when it contains a warning pattern,
\* otherwise info, and this is the severity of the objects returned by
\* handleApiError and createDisplayError for the message.
HasPattern(message, patterns) ==
  \E pattern \in patterns : Includes(ToLowerCase(message), pattern)
C16_Severity ==
  ehArgs # NoCall =>
    ehResult.severity =
      IF HasPattern(ehArgs.message, CriticalPatterns) THEN "critical"
      ELSE IF HasPattern(ehArgs.message, WarningPatterns) THEN "warning"
      ELSE "info"
\* C17: the wizard step is always 1, 2 or 3; it changes only from 1 to 2 on
\* a data upload, from 2 to 1 on Back, from 2 to 3 on an accepted training
\* start, and to 1 on reset; at step 2 or 3 the upload descriptor is
\* non-null, and isTraining implies step 3.
C17_WizardOrder ==
  /\ [](currentStep \in {1, 2, 3})
  /\ [][currentStep' # currentStep =>
          \/ currentStep = 1 /\ currentStep' = 2 /\ HandleProceed
          \/ currentStep = 2 /\ currentStep' = 1 /\ OnBack
          \/ currentStep = 2 /\ currentStep' = 3 /\ HandleStartTraining
          \/ /\ currentStep' = 1
             /\ ((\E r \in net : ResetOk(r)) \/ TrainNewModel)]_vars
  /\ [](currentStep \in {2, 3} => uploadedData # NoData)
  /\ [](isTraining => currentStep = 3)

\* C17 witness: after the reset of a run the wizard is at the configuration
\* step again, with the descriptor of a new upload
C17_Witness ==
  /\ currentStep = 2 /\ trMounts > 0
  /\ uploadedData # NoData /\ ~isTraining
\* C18: for every training start accepted by handleTrainingStart, also one
\* after the reset of an earlier run, the results panel sends exactly one
\* training-start request: the accepted start sends one, and no other step
\* sends one.
C18_OneStartRequest ==
  /\ [][(currentStep = 2 /\ currentStep' = 3) =>
          Cardinality({r \in net' \ net : r.kind = "start"}) = 1]_vars
  /\ [][(\E r \in net' \ net : r.kind = "start") =>
          (currentStep = 2 /\ currentStep' = 3)]_vars
\* the steps of the request r that call onTrainingComplete: a failed start
\* (TrainingResults.js:98), a progress response with a terminal status
\* (:123, :131, :134) and an accepted stop (:184)
ReportsEnd(r) ==
  \/ StartFail(r)
  \/ StopOk(r)
  \/ \E st \in Terminal, e \in Progress, h \in Progress :
       PollResponse(r, st, e, h, h)

\* C19: the end of a run is reported to App exactly once: the mounted
\* results panel calls onTrainingComplete only while App is still training,
\* so that a user stop followed by a 'stopped' progress response is not
\* reported a second time.
C19_EndReportedOnce ==
  [][(\E r \in net : r.inst = trInst /\ ReportsEnd(r)) => isTraining]_vars
\* a progress poll is left unanswered (it fails) or is answered with the
\* status 'training'
StillTraining ==
  \E r \in net :
    \/ PollFail(r)
    \/ \E e \in Progress, h \in Progress : PollResponse(r, "training", e, h, h)
\* no progress request is in flight, pending or about to be made
PollingCeased == \A r \in net : r.kind \notin {"start", "poll", "pollTimer"}

\* C20: with every progress poll eventually answered, if from some point on
\* the backend reports only a status other than 'training', then eventually
\* isTraining is false for good and polling has ceased.
C20_TrainingStateLeft ==
  (<>[][~StillTraining]_vars) => <>[](~isTraining /\ PollingCeased)
\* C21: at any time at most one training-progress polling chain is active:
\* at most one poll timer is pending or progress request in flight.
C21_OnePollingChain ==
  Cardinality({r \in net : r.kind \in {"poll", "pollTimer"}}) <= 1
\* part_001:142, 432-435: the Continue button is rendered and enabled
ContinueEnabled ==
  /\ DuMounted /\ uploadedFile # 0
  /\ ~(previewData = NoPreview \/ isProcessing)

\* C22: the upload descriptor handed to App pairs a file with the preview
\* of that file's own upload response, and Continue is never enabled while
\* an upload is in flight, also when a file is removed during its upload
\* and another file is uploaded.
C22_DescriptorPaired ==
  /\ uploadedData # NoData => uploadedData.preview.of = uploadedData.file
  /\ uploads # {} => ~ContinueEnabled
\* C23: a health check that fails while connectionStatus is 'connected'
\* records a connection-type error; one that fails while the status is
\* 'checking' or 'disconnected' records nothing; a successful check clears a
\* recorded connection-type error.
C23_ConnectionError ==
  [][\A r \in healthNet :
       /\ (HealthFail(r) /\ connectionStatus = "connected")
            => appLastError' = "connection"
       /\ (HealthFail(r) /\ connectionStatus # "connected")
            => appLastError' = appLastError
       /\ (HealthOk(r) /\ appLastError = "connection")
            => appLastError' = "null"]_vars

\* C24: while connectionStatus is 'disconnected' no upload request is issued
\* from the upload panel and no training start is triggered from the
\* configuration panel.
C24_DisabledWhileDisconnected ==
  [][connectionStatus = "disconnected" =>
       /\ uploads' \subseteq uploads
       /\ ~(currentStep = 2 /\ currentStep' = 3)]_vars
\* C25: whenever the testing panel is unmounted while it holds a session id
\* of a successful model load, the unmount sends a close-session request
\* that carries this session id.
C25_UnmountClosesSession ==
  [][(MtMounted /\ ~MtMounted' /\ sessionId # 0) =>
       \E r \in mtNet' :
         /\ r.kind = "close" /\ r.sid = sessionId
         /\ [r EXCEPT !.live = TRUE] \notin mtNet]_vars
\* C26: at most one stop-training request is in flight at a time; when a
\* stop attempt of the mounted panel finishes, isStoppingTraining is false
\* again; a successful stop calls onTrainingComplete(null), and a failed
\* stop leaves isTraining and the training results unchanged.
C26_StopRequest ==
  /\ [](Cardinality({r \in net : r.kind = "stop"}) <= 1)
  /\ [][\A r \in net :
          /\ ((StopOk(r) \/ StopFail(r)) /\ r.inst = trInst)
               => ~isStoppingTraining'
          /\ StopOk(r) => (~isTraining' /\ trainingResults' = 0)
          /\ StopFail(r) => UNCHANGED <<isTraining, trainingResults>>]_vars
====
